---- MODULE Spec2Model ----
(***************************************************************************)
(* Authorization-code and token lifecycle of the oauth-golang service:     *)
(* /authorize, /callback, /token (authorization_code and refresh_token),   *)
(* /introspect, /userinfo, the revocation operations, the in-memory        *)
(* session and code store with its sweep, and the durable tables           *)
(* (oauth_clients, users, refresh_tokens, revoked_tokens).                 *)
(*                                                                         *)
(* Time is counted in minutes.  Random strings are fresh values drawn      *)
(* from counters.  SHA-256 is an injective constructor.                    *)
(***************************************************************************)
EXTENDS Integers, FiniteSets, Sequences, TLC

\* ------------------------------------------------------------------ bounds
MaxReq      == 2    \* concurrent authorization_code token requests
MaxSessions == 1    \* sessions created by /authorize
MaxCodes    == 1    \* authorization codes minted by /callback
MaxTriples  == 2    \* token triples produced by GenerateTokens
MaxTicks    == 2    \* number of times the clock is advanced
MaxArrival  == 2    \* latest minute at which a timed run starts an authorization

\* ------------------------------------------------- program constants (min)
CodeTTL       == 10      \* time.Now().Add(10 * time.Minute)
SessionMaxAge == 15      \* now.Sub(session.CreatedAt) > 15*time.Minute
AccessTTL     == 60      \* now.Add(1 * time.Hour)
RefreshTTL    == 43200   \* now.Add(30 * 24 * time.Hour)
MinPKCELen    == 43      \* len(codeVerifier) < 43
MaxPKCELen    == 128     \* len(codeVerifier) > 128
SweepInterval == 1       \* time.NewTicker(1 * time.Minute)

\* amounts by which the clock is advanced between operations: around the
\* lifetime of a code and a session, and around the lifetime of the tokens
CodeTimeSteps  == {5, CodeTTL + 1}
TokenTimeSteps == {AccessTTL, RefreshTTL}

\* --------------------------------------------------------------- PKCE text
\* A PKCE string is described by what the code inspects: its identity (for
\* equality), its length and the classes of the characters it contains.
EmptyStr == [id |-> <<>>, len |-> 0, cls |-> {}]
V1       == [id |-> <<"v1">>, len |-> 43, cls |-> {"alnum"}]
V2       == [id |-> <<"v2">>, len |-> 43, cls |-> {"alnum", "tilde"}]
VShort   == [id |-> <<"short">>, len |-> 8, cls |-> {"alnum"}]

\* base64.RawURLEncoding.EncodeToString(sha256.Sum256(v)): 32 bytes encode to
\* 43 characters of the URL-safe alphabet; distinct inputs, distinct digests.
Sha256Base64URL(v) ==
    [id |-> <<"sha256">> \o v.id, len |-> 43, cls |-> {"alnum", "dash", "underscore"}]

isBase64URL(s) == s.cls \subseteq {"alnum", "dash", "underscore"}

ValidateCodeChallenge_NoAlphabetCheck(codeChallenge, method) ==
    /\ codeChallenge # EmptyStr
    /\ method \in {"", "plain", "S256"}
    /\ ~(codeChallenge.len < MinPKCELen \/ codeChallenge.len > MaxPKCELen)

ValidateCodeChallenge(codeChallenge, method) ==
    /\ codeChallenge # EmptyStr
    /\ isBase64URL(codeChallenge)
    /\ method \in {"", "plain", "S256"}
    /\ ~(codeChallenge.len < MinPKCELen \/ codeChallenge.len > MaxPKCELen)

\* helper used by the token endpoint
verifyCodeChallenge_AcceptsAny(codeVerifier, codeChallenge, method) ==
    TRUE

verifyCodeChallenge(codeVerifier, codeChallenge, method) ==
    IF method = "" \/ method = "plain"
    THEN codeVerifier = codeChallenge
    ELSE IF method = "S256"
         THEN Sha256Base64URL(codeVerifier) = codeChallenge
         ELSE FALSE

\* PKCEValidator.VerifyCodeChallenge, the method of the validator
VerifyCodeChallenge(codeVerifier, codeChallenge, method) ==
    IF codeVerifier = EmptyStr \/ codeChallenge = EmptyStr THEN FALSE
    ELSE IF codeVerifier.len < MinPKCELen \/ codeVerifier.len > MaxPKCELen THEN FALSE
    ELSE IF method = "" \/ method = "plain" THEN codeVerifier = codeChallenge
    ELSE IF method = "S256" THEN Sha256Base64URL(codeVerifier) = codeChallenge
    ELSE FALSE

\* PKCEValidator.GenerateCodeChallenge
GenerateCodeChallenge_AlwaysPlain(codeVerifier, method) ==
    codeVerifier

GenerateCodeChallenge(codeVerifier, method) ==
    IF method = "" \/ method = "plain" THEN codeVerifier
    ELSE IF method = "S256" THEN Sha256Base64URL(codeVerifier)
    ELSE EmptyStr

\* PKCEValidator.ValidateCodeVerifier: the length bound and the unreserved
\* characters A-Z, a-z, 0-9, '-', '.', '_', '~'
ValidateCodeVerifier(codeVerifier) ==
    /\ ~(codeVerifier.len < MinPKCELen \/ codeVerifier.len > MaxPKCELen)
    /\ codeVerifier.cls \subseteq {"alnum", "dash", "dot", "underscore", "tilde"}

\* verifiers at and beyond the length bounds and with characters inside and
\* outside the unreserved set
VMax  == [id |-> <<"max">>, len |-> MaxPKCELen, cls |-> {"alnum", "dash"}]
VLong == [id |-> <<"long">>, len |-> MaxPKCELen + 1, cls |-> {"alnum"}]
VDot  == [id |-> <<"dot">>, len |-> 50, cls |-> {"alnum", "dot", "underscore"}]
VPlus == [id |-> <<"plus">>, len |-> MinPKCELen, cls |-> {"alnum", "other"}]

VerifierPool == {EmptyStr, V1, V2, VShort, VMax, VLong, VDot, VPlus}

Methods == {"", "plain", "S256", "md5"}

\* (challenge, method) pairs a client may send to /authorize
PKCEParams ==
    { <<EmptyStr, "">>,
      <<Sha256Base64URL(V1), "S256">>,
      <<V1, "plain">>,
      <<V1, "">>,
      <<VShort, "S256">>,
      <<Sha256Base64URL(V1), "md5">> }

Verifiers == {EmptyStr, V1, V2}

\* challenges at and beyond the length bounds and with characters outside
\* the URL-safe base64 alphabet
BoundaryPKCEParams ==
    { <<VMax, "plain">>, <<VLong, "plain">>, <<V2, "plain">>, <<VDot, "S256">>, <<VPlus, "">> }

\* ------------------------------------------------------------- client data
DemoClient == "demo-frontend"
ConfClient == "backend"
GhostClient == "ghost"
ClientIds == {DemoClient, ConfClient, GhostClient}

DemoRedirect    == "http://localhost:3000/callback"
DefaultRedirect == "http://localhost:3000/auth/callback"
ConfRedirect    == "https://backend.example/cb"
RedirectURIs == {DemoRedirect, DefaultRedirect, ConfRedirect}

ConfSecret == "s3cret"
Secrets == {"", ConfSecret}

\* secrets that differ from the registered one in a character or in case
WrongSecrets == {"s3cre", "S3CRET"}

Scopes == {"openid", "openid email profile"}

Identities == {"alice@example.com"}

NoClient == [ClientID |-> ""]

OAuthClient(id, secret, type, uris) ==
    [ClientID |-> id, ClientSecret |-> secret, ClientType |-> type, RedirectURIs |-> uris]

IsConfidential_Never(c) == FALSE

IsConfidential(c) == c.ClientType = "confidential"

ValidateRedirectURI_AnyURI(c, uri) == c.RedirectURIs # {}

ValidateRedirectURI(c, uri) == \E registeredURI \in c.RedirectURIs : registeredURI = uri

\* redirect URIs that share a prefix or a suffix with a registered one, or
\* extend it, without being equal to it
PartialRedirects ==
    {"http://localhost:3000/call", "http://localhost:3000/callback/evil", "localhost:3000/callback"}

\* ---------------------------------------------------------------- JWT data
JWTSecret   == "jwt-secret"
AttackerKey == "attacker-key"
IssuerName  == "oauth-service"

\* jwt.NewWithClaims(HS256, claims).SignedString(secret)
SignedString(claims, key) == [claims |-> claims, sig |-> key]

Claim(c, k, default) == IF k \in DOMAIN c THEN c[k] ELSE default

mapClaimsToTokenClaims(c) ==
    [Subject   |-> Claim(c, "sub", ""),
     Email     |-> Claim(c, "email", ""),
     Scope     |-> Claim(c, "scope", ""),
     ClientID  |-> Claim(c, "client_id", ""),
     Issuer    |-> Claim(c, "iss", ""),
     Audience  |-> Claim(c, "aud", ""),
     ID        |-> Claim(c, "jti", ""),
     ExpiresAt |-> Claim(c, "exp", 0),
     IssuedAt  |-> Claim(c, "iat", 0)]

GenerateAccessToken(secret, t, sub, email, scope, clientID, jti) ==
    SignedString([sub |-> sub, email |-> email, scope |-> scope, client_id |-> clientID,
                  iss |-> IssuerName, aud |-> "oauth-service",
                  exp |-> t + AccessTTL, iat |-> t, jti |-> jti, type |-> "access"], secret)

GenerateRefreshToken(secret, t, userID, jti) ==
    SignedString([sub |-> userID, iss |-> IssuerName, aud |-> "oauth-service",
                  exp |-> t + RefreshTTL, iat |-> t, jti |-> jti, type |-> "refresh"], secret)

GenerateIDToken(secret, t, sub, email, verified) ==
    SignedString([sub |-> sub, email |-> email, email_verified |-> verified,
                  iss |-> IssuerName, aud |-> "oauth-service",
                  exp |-> t + AccessTTL, iat |-> t, type |-> "id"], secret)

\* jwt.Parse with the HMAC key function: the signature must verify under the
\* service secret and the exp claim must lie in the future.
ParseValid(tok, secret, t) ==
    /\ tok.sig = secret
    /\ "exp" \in DOMAIN tok.claims => t < tok.claims["exp"]

VerifyAccessToken_NoTypeCheck(tok, secret, t) ==
    ParseValid(tok, secret, t)

VerifyAccessToken(tok, secret, t) ==
    /\ ParseValid(tok, secret, t)
    /\ Claim(tok.claims, "type", "") = "access"

VerifyRefreshToken(tok, secret, t) ==
    /\ ParseValid(tok, secret, t)
    /\ Claim(tok.claims, "type", "") = "refresh"

\* storage.hashToken: hex(sha256(token))
hashToken(tok) == [sha256hex |-> tok]


\* ------------------------------------------------------------- map helpers
Put(m, k, v) == [x \in DOMAIN m \cup {k} |-> IF x = k THEN v ELSE m[x]]
Delete(m, k) == [x \in DOMAIN m \ {k} |-> m[x]]
EmptyMap == [x \in {} |-> 0]

\* utils.GenerateRandomString: a value nobody has seen before
RandomString(kind, n) == [rnd |-> kind, n |-> n]

\* ------------------------------------------------------------------- state
VARIABLES
    now,            \* time.Now(), in minutes
    ticks,          \* how often the clock was advanced
    clients,        \* oauth_clients table: client id -> row (NoClient: no row)
    users,          \* users table: set of rows
    uidCount,       \* user ids generated so far
    sessions,       \* AuthCodeService.sessions
    sidCount,       \* session ids generated so far
    authCodes,      \* AuthCodeService.authCodes
    codeCount,      \* authorization codes generated so far
    minted,         \* history: every code /callback stored, with its session key
    reqs,           \* authorization_code token requests in progress
    refreshTokens,  \* refresh_tokens table: token -> row
    revokedTokens,  \* revoked_tokens table: token hash -> row
    tripleCount,    \* calls of GenerateTokens so far
    delivered,      \* history: token responses written by /token
    resp            \* the response being written to the caller of the last request

vars == <<now, ticks, clients, users, uidCount, sessions, sidCount, authCodes, codeCount,
          minted, reqs, refreshTokens, revokedTokens, tripleCount, delivered, resp>>

clockVars == <<now, ticks>>
userVars  == <<users, uidCount>>
storeVars == <<sessions, sidCount, authCodes, codeCount, minted>>
tokenVars == <<refreshTokens, tripleCount>>

NoCode    == [Code |-> RandomString("none", 0)]
NoTokens  == [ExpiresIn |-> 0]
NoUser    == [ID |-> RandomString("none", 0)]
BogusCode == RandomString("guess", 0)
IdleReq   == [pc |-> "idle"]
NoResp    == [op |-> "none"]

\* no response is being written: the handlers below start in such a state
Quiet == resp = NoResp

\* storage.SeedDevClient seeds the public demo client; the confidential client
\* is a row registered through ClientRepository.CreateClient.
Init ==
    /\ now = 0
    /\ ticks = 0
    /\ clients = [id \in ClientIds |->
                    CASE id = DemoClient -> OAuthClient(DemoClient, "dev-secret", "public", {DemoRedirect})
                      [] id = ConfClient -> OAuthClient(ConfClient, ConfSecret, "confidential", {ConfRedirect})
                      [] OTHER -> NoClient]
    /\ users = {}
    /\ uidCount = 0
    /\ sessions = EmptyMap
    /\ sidCount = 0
    /\ authCodes = EmptyMap
    /\ codeCount = 0
    /\ minted = {}
    /\ reqs = [r \in 1..MaxReq |-> IdleReq]
    /\ refreshTokens = EmptyMap
    /\ revokedTokens = EmptyMap
    /\ tripleCount = 0
    /\ delivered = {}
    /\ resp = NoResp

\* ------------------------------------------------------------------- clock
AdvanceTime(d) ==
    /\ Quiet
    /\ ticks < MaxTicks
    /\ now' = now + d
    /\ ticks' = ticks + 1
    /\ UNCHANGED <<clients, userVars, storeVars, reqs, tokenVars, revokedTokens, delivered, resp>>

\* the entries one iteration of AuthCodeService.cleanupExpired keeps
SweptCodes_KeepsExpired(codes, t) == codes

SweptCodes(codes, t) ==
    [c \in {k \in DOMAIN codes : ~(t > codes[k].ExpiresAt)} |-> codes[c]]

SweptSessions(sess, t) ==
    [s \in {k \in DOMAIN sess : ~(t - sess[k].CreatedAt > SessionMaxAge)} |-> sess[s]]

\* one iteration of the ticker loop of AuthCodeService.cleanupExpired
cleanupExpired ==
    /\ Quiet
    /\ authCodes' = SweptCodes(authCodes, now)
    /\ sessions' = SweptSessions(sessions, now)
    /\ (authCodes' # authCodes \/ sessions' # sessions)
    /\ UNCHANGED <<clockVars, clients, userVars, sidCount, codeCount, minted, reqs, tokenVars,
                   revokedTokens, delivered, resp>>

\* The ticker of cleanupExpired fires once per SweepInterval and the loop body
\* runs on every tick: the clock moves on to the next tick only when the sweep
\* of the present tick has left nothing to remove.  Requests are served at a
\* tick before or after its sweep.
SweepDue ==
    SweptCodes(authCodes, now) # authCodes \/ SweptSessions(sessions, now) # sessions

\* the last tick a timed run looks at: late enough for the sweep of a code
\* minted from the last session to have run
SweepHorizon == MaxArrival + SessionMaxAge + CodeTTL + 2 * SweepInterval

TickerInterval ==
    /\ Quiet
    /\ ~SweepDue
    /\ now < SweepHorizon
    /\ now' = now + SweepInterval
    /\ UNCHANGED <<ticks, clients, userVars, storeVars, reqs, tokenVars, revokedTokens,
                   delivered, resp>>

\* -------------------------------------------------------- client directory
\* Storage.GetClientByID, the lookup main wires into the router: a missing row
\* is created as a public client with the default redirect URI.
AutoClient(id) == OAuthClient(id, RandomString("secret", 0), "public", {DefaultRedirect})

GetClientByID(dir, id) == IF dir[id] = NoClient THEN AutoClient(id) ELSE dir[id]

ClientsAfterLookup(dir, id) == IF dir[id] = NoClient THEN [dir EXCEPT ![id] = AutoClient(id)] ELSE dir

\* ------------------------------------------------------------- /authorize
\* AuthorizeHandler.Handle
Authorize(clientID, redirectURI, state, pkce, scope) ==
    LET client == GetClientByID(clients, clientID)
        codeChallenge == pkce[1]
        codeChallengeMethod == pkce[2]
        ok == /\ ValidateRedirectURI(client, redirectURI)
              /\ codeChallenge # EmptyStr => ValidateCodeChallenge(codeChallenge, codeChallengeMethod)
        sessionID == RandomString("session", sidCount + 1)
    IN  /\ Quiet
        /\ sidCount < MaxSessions
        /\ clients' = ClientsAfterLookup(clients, clientID)
        /\ IF ok
           THEN /\ sessions' = Put(sessions, sessionID,
                        [ClientID |-> clientID, RedirectURI |-> redirectURI,
                         State |-> IF state = "" THEN RandomString("state", sidCount + 1)
                                                 ELSE RandomString(state, 0),
                         CodeChallenge |-> codeChallenge,
                         CodeChallengeMethod |-> codeChallengeMethod,
                         Scope |-> scope, CreatedAt |-> now])
                /\ sidCount' = sidCount + 1
           ELSE UNCHANGED <<sessions, sidCount>>
        /\ UNCHANGED <<clockVars, userVars, authCodes, codeCount, minted, reqs, tokenVars,
                       revokedTokens, delivered, resp>>

\* -------------------------------------------------------------- /callback
\* AuthCodeService.GetSession
NoSession == [ClientID |-> ""]

GetSession_InventsSession(sessionID) ==
    IF sessionID \in DOMAIN sessions THEN sessions[sessionID]
    ELSE [ClientID |-> ConfClient, RedirectURI |-> DemoRedirect,
          State |-> sessionID, CodeChallenge |-> EmptyStr, CodeChallengeMethod |-> "",
          Scope |-> "openid", CreatedAt |-> now]

GetSession(sessionID) == IF sessionID \in DOMAIN sessions THEN sessions[sessionID] ELSE NoSession

\* AuthorizeHandler.HandleCallback; googleOK: the code exchange and the
\* profile fetch with the identity provider both succeeded.
HandleCallback(stateParam, googleOK, email) ==
    LET session == GetSession(stateParam)
        authCode == RandomString("code", codeCount + 1)
        entry == [Code |-> authCode, ClientID |-> session.ClientID,
                  RedirectURI |-> session.RedirectURI, UserID |-> email,
                  CodeChallenge |-> session.CodeChallenge,
                  CodeChallengeMethod |-> session.CodeChallengeMethod,
                  Scope |-> session.Scope, ExpiresAt |-> now + CodeTTL,
                  UserInfo |-> [ID |-> <<"google", email>>, Email |-> email,
                                VerifiedEmail |-> TRUE]]
    IN  /\ Quiet
        /\ codeCount < MaxCodes
        /\ session # NoSession
        /\ googleOK
        /\ authCodes' = Put(authCodes, authCode, entry)
        /\ codeCount' = codeCount + 1
        /\ minted' = minted \cup {[Code |-> authCode, ExpiresAt |-> entry.ExpiresAt,
                                     Session |-> stateParam, MintedAt |-> now,
                                     SessionCreatedAt |-> session.CreatedAt]}
        /\ UNCHANGED <<clockVars, clients, userVars, sessions, sidCount, reqs, tokenVars,
                       revokedTokens, delivered, resp>>

\* ------------------------------------------------------------ users table
\* user.AuthService.CreateOrUpdateUser: looks the identity up by Google id,
\* then by e-mail; updates the row found or creates one with a fresh id.
ExistingUser(info) ==
    IF \E u \in users : u.GoogleID = info.ID
    THEN CHOOSE u \in users : u.GoogleID = info.ID
    ELSE IF \E u \in users : u.Email = info.Email
         THEN CHOOSE u \in users : u.Email = info.Email
         ELSE NoUser

CreateOrUpdateUser(info) ==
    [ID |-> IF ExistingUser(info) # NoUser THEN ExistingUser(info).ID
                                           ELSE RandomString("user", uidCount + 1),
     Email |-> info.Email, EmailVerified |-> info.VerifiedEmail, GoogleID |-> info.ID]

UsersAfter(info) ==
    (users \ {ExistingUser(info)}) \cup {CreateOrUpdateUser(info)}

\* ----------------------------------------------------------- token service
\* TokenRepository.StoreRefreshToken: the row always carries the client id
\* "oauth-service" and the scope "openid email profile".
StoreRefreshToken_RevokesOthers(table, token, userID, expiresAt) ==
    [t \in DOMAIN table \cup {token} |->
        IF t = token
        THEN [Token |-> token, UserID |-> userID, ClientID |-> "oauth-service",
              Scope |-> "openid email profile", ExpiresAt |-> expiresAt, Revoked |-> FALSE]
        ELSE [table[t] EXCEPT !.Revoked = TRUE]]

StoreRefreshToken_StoresRevoked(table, token, userID, expiresAt) ==
    Put(table, token, [Token |-> token, UserID |-> userID, ClientID |-> "oauth-service",
                       Scope |-> "openid email profile", ExpiresAt |-> expiresAt,
                       Revoked |-> TRUE])

StoreRefreshToken(table, token, userID, expiresAt) ==
    Put(table, token, [Token |-> token, UserID |-> userID, ClientID |-> "oauth-service",
                       Scope |-> "openid email profile", ExpiresAt |-> expiresAt,
                       Revoked |-> FALSE])

\* The triple TokenService.GenerateTokens builds for a user and a scope.
TokenPair(user, scope) ==
    [AccessToken  |-> GenerateAccessToken(JWTSecret, now, user.ID, user.Email, scope,
                                          "oauth-service", RandomString("jti-a", tripleCount + 1)),
     RefreshToken |-> GenerateRefreshToken(JWTSecret, now, user.ID,
                                           RandomString("jti-r", tripleCount + 1)),
     IDToken      |-> GenerateIDToken(JWTSecret, now, user.ID, user.Email, user.EmailVerified),
     ExpiresIn    |-> AccessTTL]

\* What TokenService.GenerateTokens returns: the triple, or an error (NoTokens)
\* when the refresh row could not be written.
GenerateTokens_ReturnsDespiteStoreError(user, scope, storeOK) ==
    TokenPair(user, scope)

GenerateTokens(user, scope, storeOK) ==
    IF storeOK THEN TokenPair(user, scope) ELSE NoTokens

\* The effect of TokenService.GenerateTokens on the tables: the refresh row
\* is written unless the insert fails.
GenerateTokensEffect(user, scope, storeOK) ==
    /\ tripleCount' = tripleCount + 1
    /\ refreshTokens' = IF storeOK
                        THEN StoreRefreshToken(refreshTokens, TokenPair(user, scope).RefreshToken,
                                               user.ID, now + RefreshTTL)
                        ELSE refreshTokens

\* ------------------------------------------- /token, authorization_code
\* TokenHandler.writeError / writeTokenResponse for the authorization_code
\* grant; late: the expiry check ran after the code's ExpiresAt.
TokenResp(outcome, code, tokens, late) ==
    [op |-> "token", outcome |-> outcome, code |-> code, tokens |-> tokens, late |-> late]

\* AuthCodeService.GetAuthCode
GetAuthCode(code) == IF code \in DOMAIN authCodes THEN authCodes[code] ELSE NoCode

\* AuthCodeService.DeleteAuthCode
DeleteAuthCode_Keeps(codes, code) == codes

DeleteAuthCode(codes, code) == Delete(codes, code)

\* TokenHandler.handleAuthorizationCodeGrant up to and including GetAuthCode:
\* the parameter check, the client lookup and secret check, the code lookup.
RedeemStart(r, code, redirectURI, clientID, clientSecret, codeVerifier) ==
    LET client == GetClientByID(clients, clientID)
    IN  /\ Quiet
        /\ reqs[r].pc = "idle"
        /\ IF redirectURI = ""
           THEN /\ resp' = TokenResp("invalid_request", code, NoTokens, FALSE)
                /\ UNCHANGED <<clients, reqs>>
           ELSE /\ clients' = ClientsAfterLookup(clients, clientID)
                /\ IF IsConfidential(client) /\ client.ClientSecret # clientSecret
                   THEN /\ resp' = TokenResp("invalid_client", code, NoTokens, FALSE)
                        /\ UNCHANGED reqs
                   ELSE IF GetAuthCode(code) = NoCode
                   THEN /\ resp' = TokenResp("invalid_grant", code, NoTokens, FALSE)
                        /\ UNCHANGED reqs
                   ELSE /\ reqs' = [reqs EXCEPT ![r] =
                                [pc |-> "got", code |-> code, redirectURI |-> redirectURI,
                                 clientID |-> clientID, clientSecret |-> clientSecret,
                                 codeVerifier |-> codeVerifier,
                                 client |-> client, authCode |-> GetAuthCode(code)]]
                        /\ UNCHANGED resp
        /\ UNCHANGED <<clockVars, userVars, storeVars, tokenVars, revokedTokens, delivered>>

\* The error the checks on the retrieved code end with ("" when they pass).
CodeCheck_NoExpiryCheck(rq, t) ==
    LET authCode == rq.authCode
    IN  IF authCode.ClientID # rq.clientID THEN "invalid_grant"
        ELSE IF authCode.RedirectURI # rq.redirectURI THEN "invalid_grant"
        ELSE IF authCode.CodeChallenge # EmptyStr /\ rq.codeVerifier = EmptyStr
             THEN "invalid_request"
        ELSE IF authCode.CodeChallenge # EmptyStr
                /\ ~verifyCodeChallenge(rq.codeVerifier, authCode.CodeChallenge,
                                        authCode.CodeChallengeMethod)
             THEN "invalid_grant"
        ELSE ""

CodeCheck_MismatchAsExpired(rq, t) ==
    LET authCode == rq.authCode
    IN  IF t > authCode.ExpiresAt THEN "expired"
        ELSE IF authCode.ClientID # rq.clientID THEN "expired"
        ELSE IF authCode.RedirectURI # rq.redirectURI THEN "expired"
        ELSE IF authCode.CodeChallenge # EmptyStr /\ rq.codeVerifier = EmptyStr
             THEN "invalid_request"
        ELSE IF authCode.CodeChallenge # EmptyStr
                /\ ~verifyCodeChallenge(rq.codeVerifier, authCode.CodeChallenge,
                                        authCode.CodeChallengeMethod)
             THEN "invalid_grant"
        ELSE ""

CodeCheck_NoRedirectCheck(rq, t) ==
    LET authCode == rq.authCode
    IN  IF t > authCode.ExpiresAt THEN "expired"
        ELSE IF authCode.ClientID # rq.clientID THEN "invalid_grant"
        ELSE IF authCode.CodeChallenge # EmptyStr /\ rq.codeVerifier = EmptyStr
             THEN "invalid_request"
        ELSE IF authCode.CodeChallenge # EmptyStr
                /\ ~verifyCodeChallenge(rq.codeVerifier, authCode.CodeChallenge,
                                        authCode.CodeChallengeMethod)
             THEN "invalid_grant"
        ELSE ""

CodeCheck(rq, t) ==
    LET authCode == rq.authCode
    IN  IF t > authCode.ExpiresAt THEN "expired"
        ELSE IF authCode.ClientID # rq.clientID THEN "invalid_grant"
        ELSE IF authCode.RedirectURI # rq.redirectURI THEN "invalid_grant"
        ELSE IF authCode.CodeChallenge # EmptyStr /\ rq.codeVerifier = EmptyStr
             THEN "invalid_request"
        ELSE IF authCode.CodeChallenge # EmptyStr
                /\ ~verifyCodeChallenge(rq.codeVerifier, authCode.CodeChallenge,
                                        authCode.CodeChallengeMethod)
             THEN "invalid_grant"
        ELSE ""

\* handleAuthorizationCodeGrant from the expiry check through GenerateTokens.
\* userOK / storeOK: the users table / the refresh_tokens insert did not fail.
RedeemProcess(r, userOK, storeOK) ==
    LET rq == reqs[r]
        authCode == rq.authCode
        late == now > authCode.ExpiresAt
        user == CreateOrUpdateUser(authCode.UserInfo)
        tokens == GenerateTokens(user, authCode.Scope, storeOK)
        fail(outcome) == /\ reqs' = [reqs EXCEPT ![r] = IdleReq]
                         /\ resp' = TokenResp(outcome, rq.code, NoTokens, late)
    IN  /\ Quiet
        /\ rq.pc = "got"
        /\ IF CodeCheck(rq, now) = "expired"
           THEN /\ authCodes' = DeleteAuthCode(authCodes, rq.code)
                /\ fail("invalid_grant")
                /\ UNCHANGED <<userVars, tokenVars>>
           ELSE IF CodeCheck(rq, now) # ""
           THEN /\ fail(CodeCheck(rq, now))
                /\ UNCHANGED <<authCodes, userVars, tokenVars>>
           ELSE IF ~userOK
           THEN /\ fail("server_error")
                /\ UNCHANGED <<authCodes, userVars, tokenVars>>
           ELSE /\ tripleCount < MaxTriples
                /\ users' = UsersAfter(authCode.UserInfo)
                /\ uidCount' = IF ExistingUser(authCode.UserInfo) = NoUser
                               THEN uidCount + 1 ELSE uidCount
                /\ GenerateTokensEffect(user, authCode.Scope, storeOK)
                /\ IF tokens = NoTokens
                   THEN fail("server_error")
                   ELSE /\ reqs' = [reqs EXCEPT ![r] =
                                [pc |-> "issued", code |-> rq.code, authCode |-> authCode,
                                 clientSecret |-> rq.clientSecret,
                                 codeVerifier |-> rq.codeVerifier, client |-> rq.client,
                                 tokens |-> tokens, late |-> late]]
                        /\ UNCHANGED resp
                /\ UNCHANGED authCodes
        /\ UNCHANGED <<clockVars, clients, sessions, sidCount, codeCount, minted, revokedTokens,
                       delivered>>

\* handleAuthorizationCodeGrant, the end: DeleteAuthCode, then the response.
RedeemFinish(r) ==
    LET rq == reqs[r]
    IN  /\ Quiet
        /\ rq.pc = "issued"
        /\ authCodes' = DeleteAuthCode(authCodes, rq.code)
        /\ reqs' = [reqs EXCEPT ![r] = IdleReq]
        /\ resp' = TokenResp("ok", rq.code, rq.tokens, rq.late)
        /\ delivered' = delivered \cup
                {[grant |-> "authorization_code", code |-> rq.code, authCode |-> rq.authCode,
                  client |-> rq.client, clientSecret |-> rq.clientSecret,
                  codeVerifier |-> rq.codeVerifier, late |-> rq.late, tokens |-> rq.tokens]}
        /\ UNCHANGED <<clockVars, clients, userVars, sessions, sidCount, codeCount, minted,
                       tokenVars, revokedTokens>>

\* The caller has read the response.
Receive ==
    /\ ~Quiet
    /\ resp' = NoResp
    /\ UNCHANGED <<clockVars, clients, userVars, storeVars, reqs, tokenVars, revokedTokens,
                   delivered>>

\* ------------------------------------------------- tokens a caller can send
\* every artifact a /token response has handed out
KnownTokens == UNION {{d.tokens.AccessToken, d.tokens.RefreshToken, d.tokens.IDToken} : d \in delivered}

\* the same claims signed with a key that is not the service's
Forged(tok) == [tok EXCEPT !.sig = AttackerKey]

\* a string that is not a JWT
Malformed == [claims |-> <<>>, sig |-> ""]

TokenInputs == KnownTokens \cup {Forged(tok) : tok \in KnownTokens} \cup {Malformed}

\* ------------------------------------------------------- revocation ledger
\* TokenRepository.IsTokenRevoked: EXISTS(... token_hash = $1 AND expires_at > now)
IsTokenRevoked_IgnoresExpiry(ledger, tok, t) ==
    hashToken(tok) \in DOMAIN ledger

IsTokenRevoked(ledger, tok, t) ==
    /\ hashToken(tok) \in DOMAIN ledger
    /\ ledger[hashToken(tok)].ExpiresAt > t

\* TokenRepository.RevokeToken: INSERT ... ON CONFLICT (token_hash) DO NOTHING
RevokeTokenRow_UpdatesOnConflict(ledger, tok, t, ttl) ==
    Put(ledger, hashToken(tok), [ExpiresAt |-> t + ttl, CreatedAt |-> t])

RevokeTokenRow(ledger, tok, t, ttl) ==
    IF hashToken(tok) \in DOMAIN ledger THEN ledger
    ELSE Put(ledger, hashToken(tok), [ExpiresAt |-> t + ttl, CreatedAt |-> t])

\* ---------------------------------------------- /token, refresh_token grant
\* TokenRepository.GetUserByID: the row, or nil when there is none
GetUserByID(userID) ==
    IF \E u \in users : u.ID = userID THEN CHOOSE u \in users : u.ID = userID ELSE NoUser

\* TokenService.RefreshTokens up to the user lookup: the error it returns,
\* "" when every check passes.  readOK: the refresh_tokens query did not fail.
RefreshCheck_NoRevokedCheck(tok, readOK) ==
    IF ~VerifyRefreshToken(tok, JWTSecret, now) THEN "invalid refresh token"
    ELSE IF ~readOK \/ tok \notin DOMAIN refreshTokens THEN "refresh token not found or expired"
    ELSE IF now > refreshTokens[tok].ExpiresAt THEN "refresh token has expired"
    ELSE ""

RefreshCheck(tok, readOK) ==
    IF ~VerifyRefreshToken(tok, JWTSecret, now) THEN "invalid refresh token"
    ELSE IF ~readOK \/ tok \notin DOMAIN refreshTokens THEN "refresh token not found or expired"
    ELSE IF refreshTokens[tok].Revoked THEN "refresh token has been revoked"
    ELSE IF now > refreshTokens[tok].ExpiresAt THEN "refresh token has expired"
    ELSE ""

RefreshResp(tok, outcome, tokens) ==
    [op |-> "refresh", token |-> tok, outcome |-> outcome, tokens |-> tokens]

\* TokenService.RefreshTokens: the error it returns ("" for none, "panic" for
\* the nil dereference of a user that has no row), the triple, and whether
\* GenerateTokens ran.  storeOK: the refresh_tokens insert did not fail.
RefreshTokens_BoundToIssuingClient(refreshToken, clientID, readOK, storeOK) ==
    LET claims == mapClaimsToTokenClaims(refreshToken.claims)
        user == GetUserByID(refreshTokens[refreshToken].UserID)
        tokens == GenerateTokens(user, claims.Scope, storeOK)
    IN  IF RefreshCheck(refreshToken, readOK) # ""
        THEN [err |-> RefreshCheck(refreshToken, readOK), tokens |-> NoTokens, generated |-> FALSE]
        ELSE IF \E d \in delivered : /\ d.grant = "authorization_code"
                                     /\ d.tokens.RefreshToken = refreshToken
                                     /\ d.client.ClientID # clientID
        THEN [err |-> "client mismatch", tokens |-> NoTokens, generated |-> FALSE]
        ELSE IF user = NoUser
        THEN [err |-> "panic", tokens |-> NoTokens, generated |-> FALSE]
        ELSE IF tokens = NoTokens
        THEN [err |-> "failed to store refresh token", tokens |-> NoTokens, generated |-> TRUE]
        ELSE [err |-> "", tokens |-> tokens, generated |-> TRUE]

RefreshTokens(refreshToken, clientID, readOK, storeOK) ==
    LET claims == mapClaimsToTokenClaims(refreshToken.claims)
        user == GetUserByID(refreshTokens[refreshToken].UserID)
        tokens == GenerateTokens(user, claims.Scope, storeOK)
    IN  IF RefreshCheck(refreshToken, readOK) # ""
        THEN [err |-> RefreshCheck(refreshToken, readOK), tokens |-> NoTokens, generated |-> FALSE]
        ELSE IF user = NoUser
        THEN [err |-> "panic", tokens |-> NoTokens, generated |-> FALSE]
        ELSE IF tokens = NoTokens
        THEN [err |-> "failed to store refresh token", tokens |-> NoTokens, generated |-> TRUE]
        ELSE [err |-> "", tokens |-> tokens, generated |-> TRUE]

\* TokenHandler.handleRefreshTokenGrant with TokenService.RefreshTokens
RefreshGrant(tok, clientID, clientSecret, readOK, storeOK) ==
    LET client == GetClientByID(clients, clientID)
        claims == mapClaimsToTokenClaims(tok.claims)
        user == GetUserByID(refreshTokens[tok].UserID)
        result == RefreshTokens(tok, clientID, readOK, storeOK)
    IN  /\ Quiet
        /\ clients' = ClientsAfterLookup(clients, clientID)
        /\ IF IsConfidential(client) /\ client.ClientSecret # clientSecret
           THEN /\ resp' = RefreshResp(tok, "invalid_client", NoTokens)
                /\ UNCHANGED <<tokenVars, delivered>>
           ELSE IF result.err = "panic"
           THEN /\ resp' = RefreshResp(tok, "panic", NoTokens)
                /\ UNCHANGED <<tokenVars, delivered>>
           ELSE IF ~result.generated
           THEN /\ resp' = RefreshResp(tok, "invalid_grant", NoTokens)
                /\ UNCHANGED <<tokenVars, delivered>>
           ELSE /\ tripleCount < MaxTriples
                /\ GenerateTokensEffect(user, claims.Scope, storeOK)
                /\ IF result.err # ""
                   THEN /\ resp' = RefreshResp(tok, "invalid_grant", NoTokens)
                        /\ UNCHANGED delivered
                   ELSE /\ resp' = RefreshResp(tok, "ok", result.tokens)
                        /\ delivered' = delivered \cup
                              {[grant |-> "refresh_token", presented |-> tok,
                                clientID |-> clientID, tokens |-> result.tokens]}
        /\ UNCHANGED <<clockVars, userVars, storeVars, reqs, revokedTokens>>

\* ------------------------------------------------------------ /introspect
\* IntrospectHandler.writeInactiveResponse
InactiveResponse == [Active |-> FALSE]

ActiveResponse(claims) ==
    [Active |-> TRUE, Scope |-> claims.Scope,
     ClientID |-> claims.ClientID, Username |-> claims.Email, TokenType |-> "Bearer",
     Exp |-> claims.ExpiresAt, Iat |-> claims.IssuedAt, Sub |-> claims.Subject,
     Aud |-> claims.Audience, Iss |-> claims.Issuer, Jti |-> claims.ID]

\* IntrospectHandler.Handle; lookupOK: the revoked_tokens query did not fail.
IntrospectResponse_NoRevocationCheck(tok, lookupOK) ==
    IF ~VerifyAccessToken(tok, JWTSecret, now) THEN InactiveResponse
    ELSE ActiveResponse(mapClaimsToTokenClaims(tok.claims))

IntrospectResponse_FailsOpen(tok, lookupOK) ==
    IF ~VerifyAccessToken(tok, JWTSecret, now) THEN InactiveResponse
    ELSE IF lookupOK /\ IsTokenRevoked(revokedTokens, tok, now) THEN InactiveResponse
    ELSE ActiveResponse(mapClaimsToTokenClaims(tok.claims))

IntrospectResponse(tok, lookupOK) ==
    IF ~VerifyAccessToken(tok, JWTSecret, now) THEN InactiveResponse
    ELSE IF ~lookupOK \/ IsTokenRevoked(revokedTokens, tok, now) THEN InactiveResponse
    ELSE ActiveResponse(mapClaimsToTokenClaims(tok.claims))

Introspect(tok, lookupOK) ==
    /\ Quiet
    /\ resp' = [op |-> "introspect", token |-> tok, body |-> IntrospectResponse(tok, lookupOK)]
    /\ UNCHANGED <<clockVars, clients, userVars, storeVars, reqs, tokenVars, revokedTokens,
                   delivered>>

\* --------------------------------------------------------------- /userinfo
\* UserInfoHandler.Handle for a request with a Bearer token; userOK: the
\* users query did not fail.  UserRepository.GetUserByID answers like
\* GetUserByID above: the row, or nil when there is none.
UserInfoResponse(tok, userOK) ==
    LET claims == mapClaimsToTokenClaims(tok.claims)
        user == GetUserByID(claims.Subject)
    IN  IF ~VerifyAccessToken(tok, JWTSecret, now)
        THEN [status |-> 401, error |-> "invalid_token"]
        ELSE IF ~userOK THEN [status |-> 500, error |-> "server_error"]
        ELSE IF user = NoUser THEN [status |-> 401, error |-> "invalid_token"]
        ELSE [status |-> 200, Sub |-> user.ID, Email |-> user.Email,
              EmailVerified |-> user.EmailVerified]

UserInfo(tok, userOK) ==
    /\ Quiet
    /\ resp' = [op |-> "userinfo", token |-> tok, body |-> UserInfoResponse(tok, userOK)]
    /\ UNCHANGED <<clockVars, clients, userVars, storeVars, reqs, tokenVars, revokedTokens,
                   delivered>>

\* -------------------------------------------------------------- revocation
\* TokenService.RevokeToken: verifies as an access token, then as a refresh
\* token, to recover exp; the ledger row expires when the token does.
RevokeToken(tok, writeOK) ==
    LET recognized == \/ VerifyAccessToken(tok, JWTSecret, now)
                      \/ VerifyRefreshToken(tok, JWTSecret, now)
        claims == mapClaimsToTokenClaims(tok.claims)
    IN  /\ Quiet
        /\ IF ~recognized
           THEN /\ resp' = [op |-> "revoke-service", token |-> tok, err |-> "invalid token"]
                /\ UNCHANGED revokedTokens
           ELSE IF ~writeOK
           THEN /\ resp' = [op |-> "revoke-service", token |-> tok, err |-> "failed to revoke token"]
                /\ UNCHANGED revokedTokens
           ELSE /\ resp' = [op |-> "revoke-service", token |-> tok, err |-> ""]
                /\ revokedTokens' = RevokeTokenRow(revokedTokens, tok, now, claims.ExpiresAt - now)
        /\ UNCHANGED <<clockVars, clients, userVars, storeVars, reqs, tokenVars, delivered>>

\* RevokeHandler.Handle: verifies as an access token only.
RevokeHandle(tok, writeOK) ==
    LET claims == mapClaimsToTokenClaims(tok.claims)
    IN  /\ Quiet
        /\ IF ~VerifyAccessToken(tok, JWTSecret, now)
           THEN /\ resp' = [op |-> "revoke", token |-> tok, status |-> 200]
                /\ UNCHANGED revokedTokens
           ELSE IF ~writeOK
           THEN /\ resp' = [op |-> "revoke", token |-> tok, status |-> 500]
                /\ UNCHANGED revokedTokens
           ELSE /\ resp' = [op |-> "revoke", token |-> tok, status |-> 200]
                /\ revokedTokens' = RevokeTokenRow(revokedTokens, tok, now, claims.ExpiresAt - now)
        /\ UNCHANGED <<clockVars, clients, userVars, storeVars, reqs, tokenVars, delivered>>

\* ------------------------------------------- durable-table maintenance
\* TokenRepository.RevokeRefreshToken: UPDATE refresh_tokens SET revoked = true
RevokeRefreshToken(tok) ==
    /\ Quiet
    /\ tok \in DOMAIN refreshTokens
    /\ ~refreshTokens[tok].Revoked
    /\ refreshTokens' = [refreshTokens EXCEPT ![tok].Revoked = TRUE]
    /\ UNCHANGED <<clockVars, clients, userVars, storeVars, reqs, tripleCount,
                   revokedTokens, delivered, resp>>

\* UserRepository.DeleteUser: DELETE FROM users WHERE id = $1; the
\* refresh_tokens table db.AutoMigrate creates has no reference to users, so
\* the rows of the user stay.
DeleteUser(id) ==
    /\ Quiet
    /\ \E u \in users : u.ID = id
    /\ users' = {u \in users : u.ID # id}
    /\ UNCHANGED <<clockVars, clients, uidCount, storeVars, reqs, tokenVars,
                   revokedTokens, delivered, resp>>

\* TokenRepository.DeleteExpiredRevokedTokens:
\* DELETE FROM revoked_tokens WHERE expires_at < now
PurgedLedger(ledger, t) ==
    [h \in {x \in DOMAIN ledger : ~(ledger[x].ExpiresAt < t)} |-> ledger[h]]

DeleteExpiredRevokedTokens ==
    /\ Quiet
    /\ revokedTokens' = PurgedLedger(revokedTokens, now)
    /\ revokedTokens' # revokedTokens
    /\ UNCHANGED <<clockVars, clients, userVars, storeVars, reqs, tokenVars, delivered, resp>>

\* ---------------------------------------------------------- specifications
\* The steps of the service, with every input a caller can choose.
AuthorizeStep ==
    \E c \in ClientIds, u \in RedirectURIs, st \in {"csrf"}, p \in PKCEParams, sc \in Scopes :
        Authorize(c, u, st, p, sc)

CallbackStep ==
    \E s \in DOMAIN sessions \cup {RandomString("session", 0)}, ok \in BOOLEAN, e \in Identities :
        HandleCallback(s, ok, e)

RedeemStartStep(slots) ==
    \E r \in slots, k \in DOMAIN authCodes \cup {m.Code : m \in minted} \cup {BogusCode},
       u \in {DemoRedirect, ConfRedirect, ""}, c \in ClientIds, s \in Secrets, v \in Verifiers :
        RedeemStart(r, k, u, c, s, v)

RedeemProcessStep(slots) ==
    \E r \in slots, userOK \in BOOLEAN, storeOK \in BOOLEAN : RedeemProcess(r, userOK, storeOK)

RedeemFinishStep(slots) == \E r \in slots : RedeemFinish(r)

RefreshStep ==
    \E tok \in TokenInputs, c \in ClientIds, s \in Secrets, readOK \in BOOLEAN, storeOK \in BOOLEAN :
        RefreshGrant(tok, c, s, readOK, storeOK)

IntrospectStep == \E tok \in TokenInputs, lookupOK \in BOOLEAN : Introspect(tok, lookupOK)

RevokeTokenStep == \E tok \in TokenInputs, writeOK \in BOOLEAN : RevokeToken(tok, writeOK)

RevokeHandleStep == \E tok \in TokenInputs, writeOK \in BOOLEAN : RevokeHandle(tok, writeOK)

\* The whole service.
Next ==
    \/ Receive
    \/ \E d \in CodeTimeSteps \cup TokenTimeSteps : AdvanceTime(d)
    \/ cleanupExpired
    \/ AuthorizeStep
    \/ CallbackStep
    \/ RedeemStartStep(1..MaxReq)
    \/ RedeemProcessStep(1..MaxReq)
    \/ RedeemFinishStep(1..MaxReq)
    \/ RefreshStep
    \/ IntrospectStep
    \/ RevokeTokenStep
    \/ RevokeHandleStep

Spec == Init /\ [][Next]_vars

\* The code flow: sessions, codes and their redemption by one request at a
\* time, with every input, while the clock moves around the code lifetime.
NextCode ==
    \/ Receive
    \/ \E d \in CodeTimeSteps : AdvanceTime(d)
    \/ cleanupExpired
    \/ AuthorizeStep
    \/ CallbackStep
    \/ RedeemStartStep({1})
    \/ RedeemProcessStep({1})
    \/ RedeemFinishStep({1})

SpecCode == Init /\ [][NextCode]_vars

\* The authorization endpoint with every input, redirect URIs that nearly
\* match a registered one included, and the callback.
NextAuthorize ==
    \/ \E d \in CodeTimeSteps : AdvanceTime(d)
    \/ cleanupExpired
    \/ \E c \in ClientIds, u \in RedirectURIs \cup PartialRedirects, st \in {"csrf", ""},
          p \in PKCEParams \cup BoundaryPKCEParams, sc \in Scopes : Authorize(c, u, st, p, sc)
    \/ CallbackStep

SpecAuthorize == Init /\ [][NextAuthorize]_vars

\* Concurrent redemption: MaxReq requests that all name a stored code with
\* its own client, redirect URI and verifier, and storage that does not fail.
CorrectRedeemStart ==
    \E r \in 1..MaxReq, k \in DOMAIN authCodes :
        RedeemStart(r, k, authCodes[k].RedirectURI, authCodes[k].ClientID, ConfSecret, V1)

NextRace ==
    \/ Receive
    \/ \E d \in CodeTimeSteps : AdvanceTime(d)
    \/ cleanupExpired
    \/ \E c \in {DemoClient, ConfClient}, p \in {<<EmptyStr, "">>, <<Sha256Base64URL(V1), "S256">>} :
          Authorize(c, CHOOSE u \in clients[c].RedirectURIs : TRUE, "csrf", p, "openid")
    \/ CallbackStep
    \/ CorrectRedeemStart
    \/ \E r \in 1..MaxReq : RedeemProcess(r, TRUE, TRUE)
    \/ RedeemFinishStep(1..MaxReq)

SpecRace == Init /\ [][NextRace]_vars

\* Client authentication at /token: codes of the public and of the
\* confidential client without PKCE, redeemed and refreshed by every client
\* id with every secret.
NextAuth ==
    \/ Receive
    \/ \E c \in {DemoClient, ConfClient} :
          Authorize(c, CHOOSE u \in clients[c].RedirectURIs : TRUE, "csrf", <<EmptyStr, "">>, "openid")
    \/ \E s \in DOMAIN sessions, e \in Identities : HandleCallback(s, TRUE, e)
    \/ \E k \in DOMAIN authCodes, c \in ClientIds, s \in Secrets \cup WrongSecrets :
          \E u \in {authCodes[k].RedirectURI, ""} : RedeemStart(1, k, u, c, s, EmptyStr)
    \/ RedeemProcess(1, TRUE, TRUE)
    \/ RedeemFinish(1)
    \/ \E tok \in KnownTokens \cup {Malformed}, c \in ClientIds, s \in Secrets \cup WrongSecrets :
          RefreshGrant(tok, c, s, TRUE, TRUE)

SpecAuth == Init /\ [][NextAuth]_vars

\* The token lifecycle: tokens obtained through a PKCE flow of the demo
\* client, then refreshed, introspected and revoked with every input, while
\* the clock moves around the token lifetimes.
NextToken ==
    \/ Receive
    \/ \E d \in TokenTimeSteps : AdvanceTime(d)
    \/ \E sc \in Scopes : Authorize(DemoClient, DemoRedirect, "csrf", <<Sha256Base64URL(V1), "S256">>, sc)
    \/ \E s \in DOMAIN sessions, e \in Identities : HandleCallback(s, TRUE, e)
    \/ \E k \in DOMAIN authCodes : RedeemStart(1, k, DemoRedirect, DemoClient, "", V1)
    \/ \E storeOK \in BOOLEAN : RedeemProcess(1, TRUE, storeOK)
    \/ RedeemFinish(1)
    \/ RefreshStep
    \/ IntrospectStep
    \/ RevokeTokenStep
    \/ RevokeHandleStep

SpecToken == Init /\ [][NextToken]_vars

\* Refresh against a refresh_tokens table whose rows are also changed through
\* the maintenance operation of the repository.
NextRepo ==
    \/ Receive
    \/ \E d \in TokenTimeSteps : AdvanceTime(d)
    \/ \E sc \in Scopes : Authorize(DemoClient, DemoRedirect, "csrf", <<Sha256Base64URL(V1), "S256">>, sc)
    \/ \E s \in DOMAIN sessions, e \in Identities : HandleCallback(s, TRUE, e)
    \/ \E k \in DOMAIN authCodes : RedeemStart(1, k, DemoRedirect, DemoClient, "", V1)
    \/ \E storeOK \in BOOLEAN : RedeemProcess(1, TRUE, storeOK)
    \/ RedeemFinish(1)
    \/ RefreshStep
    \/ \E tok \in DOMAIN refreshTokens : RevokeRefreshToken(tok)

SpecRepo == Init /\ [][NextRepo]_vars

\* Refresh against a users table whose rows can be deleted through the
\* repository.
DeleteUserStep == \E u \in users : DeleteUser(u.ID)

NextUsers ==
    \/ Receive
    \/ \E d \in TokenTimeSteps : AdvanceTime(d)
    \/ \E sc \in Scopes : Authorize(DemoClient, DemoRedirect, "csrf", <<Sha256Base64URL(V1), "S256">>, sc)
    \/ \E s \in DOMAIN sessions, e \in Identities : HandleCallback(s, TRUE, e)
    \/ \E k \in DOMAIN authCodes : RedeemStart(1, k, DemoRedirect, DemoClient, "", V1)
    \/ \E storeOK \in BOOLEAN : RedeemProcess(1, TRUE, storeOK)
    \/ RedeemFinish(1)
    \/ RefreshStep
    \/ DeleteUserStep

SpecUsers == Init /\ [][NextUsers]_vars

\* storage.InitDB: the tables db.AutoMigrate creates at start-up
MigratedTables == {"users", "oauth_clients", "refresh_tokens"}

\* whether a query on revoked_tokens can succeed in the database main sets up
LedgerTableExists == "revoked_tokens" \in MigratedTables

\* The service as main and NewRouter wire it: the endpoints that have a
\* route (/authorize, /callback, /token, /introspect) on the database InitDB
\* sets up, used by a caller of the demo client who keeps sending requests.
RouterAuthorize == Authorize(DemoClient, DemoRedirect, "csrf", <<Sha256Base64URL(V1), "S256">>, "openid")

RouterCallback == \E s \in DOMAIN sessions, e \in Identities : HandleCallback(s, TRUE, e)

RouterRedeemStart == \E k \in DOMAIN authCodes : RedeemStart(1, k, DemoRedirect, DemoClient, "", V1)

RouterRefresh == \E tok \in KnownTokens : RefreshGrant(tok, DemoClient, "", TRUE, TRUE)

RouterIntrospect == \E tok \in TokenInputs : Introspect(tok, LedgerTableExists)

NextRouter ==
    \/ Receive
    \/ \E d \in TokenTimeSteps : AdvanceTime(d)
    \/ cleanupExpired
    \/ RouterAuthorize
    \/ RouterCallback
    \/ RouterRedeemStart
    \/ RedeemProcess(1, TRUE, TRUE)
    \/ RedeemFinish(1)
    \/ RouterRefresh
    \/ RouterIntrospect

SpecRouter ==
    /\ Init /\ [][NextRouter]_vars
    /\ WF_vars(Receive)
    /\ WF_vars(RouterAuthorize)
    /\ WF_vars(RouterCallback)
    /\ WF_vars(RouterRedeemStart)
    /\ WF_vars(RedeemProcess(1, TRUE, TRUE))
    /\ WF_vars(RedeemFinish(1))
    /\ WF_vars(RouterRefresh)
    /\ WF_vars(RouterIntrospect)

\* The store under its sweep, minute by minute: authorizations that start in
\* the first MaxArrival minutes, callbacks, redemptions, and entries that are
\* left behind.  The ticker keeps firing and the sweep gets the store lock on
\* every tick whatever requests arrive; every response is read.
SweepAuthorize ==
    /\ now <= MaxArrival
    /\ Authorize(DemoClient, DemoRedirect, "csrf", <<Sha256Base64URL(V1), "S256">>, "openid")

NextSweep ==
    \/ Receive
    \/ TickerInterval
    \/ cleanupExpired
    \/ SweepAuthorize
    \/ \E s \in DOMAIN sessions, e \in Identities : HandleCallback(s, TRUE, e)
    \/ \E k \in DOMAIN authCodes : RedeemStart(1, k, DemoRedirect, DemoClient, "", V1)
    \/ RedeemProcess(1, TRUE, TRUE)
    \/ RedeemFinish(1)

SpecSweep ==
    /\ Init /\ [][NextSweep]_vars
    /\ WF_vars(Receive)
    /\ WF_vars(TickerInterval)
    /\ WF_vars(cleanupExpired)

\* The revocation ledger: tokens of the demo client revoked through either
\* revocation operation, looked up by introspection and purged, while the
\* clock passes the expiry of the access and of the refresh tokens.
NextLedger ==
    \/ Receive
    \/ \E d \in TokenTimeSteps : AdvanceTime(d)
    \/ Authorize(DemoClient, DemoRedirect, "csrf", <<Sha256Base64URL(V1), "S256">>, "openid")
    \/ \E s \in DOMAIN sessions, e \in Identities : HandleCallback(s, TRUE, e)
    \/ \E k \in DOMAIN authCodes : RedeemStart(1, k, DemoRedirect, DemoClient, "", V1)
    \/ RedeemProcess(1, TRUE, TRUE)
    \/ RedeemFinish(1)
    \/ RevokeTokenStep
    \/ RevokeHandleStep
    \/ IntrospectStep
    \/ DeleteExpiredRevokedTokens

SpecLedger == Init /\ [][NextLedger]_vars

\* The PKCE validator as a function: a verifier V from which a challenge is
\* generated under a method, and a verifier W that is checked against it, by
\* the validator and by the helper of the token endpoint.
InitPKCE ==
    /\ now = 0
    /\ ticks = 0
    /\ clients = [id \in ClientIds |->
                    CASE id = DemoClient -> OAuthClient(DemoClient, "dev-secret", "public", {DemoRedirect})
                      [] id = ConfClient -> OAuthClient(ConfClient, ConfSecret, "confidential", {ConfRedirect})
                      [] OTHER -> NoClient]
    /\ users = {}
    /\ uidCount = 0
    /\ sessions = EmptyMap
    /\ sidCount = 0
    /\ authCodes = EmptyMap
    /\ codeCount = 0
    /\ minted = {}
    /\ reqs = [r \in 1..MaxReq |-> IdleReq]
    /\ refreshTokens = EmptyMap
    /\ revokedTokens = EmptyMap
    /\ tripleCount = 0
    /\ delivered = {}
    /\ \E v \in VerifierPool, w \in VerifierPool, m \in Methods :
          resp = [op |-> "pkce-args", V |-> v, W |-> w, method |-> m]

ApplyPKCE ==
    /\ resp.op = "pkce-args"
    /\ resp' = [op |-> "pkce", V |-> resp.V, W |-> resp.W, method |-> resp.method,
                challenge |-> GenerateCodeChallenge(resp.V, resp.method),
                own |-> VerifyCodeChallenge(resp.V, GenerateCodeChallenge(resp.V, resp.method),
                                            resp.method),
                other |-> VerifyCodeChallenge(resp.W, GenerateCodeChallenge(resp.V, resp.method),
                                              resp.method),
                helperOwn |-> verifyCodeChallenge(resp.V, GenerateCodeChallenge(resp.V, resp.method),
                                                  resp.method),
                helperOther |-> verifyCodeChallenge(resp.W, GenerateCodeChallenge(resp.V, resp.method),
                                                    resp.method)]
    /\ UNCHANGED <<clockVars, clients, userVars, storeVars, reqs, tokenVars, revokedTokens,
                   delivered>>

SpecPKCE == InitPKCE /\ [][ApplyPKCE]_vars

\* The consumers of access tokens, /introspect and /userinfo, next to the
\* revocation operations that write the ledger.
UserInfoStep == \E tok \in TokenInputs, userOK \in BOOLEAN : UserInfo(tok, userOK)

NextAccess ==
    \/ NextLedger
    \/ UserInfoStep

SpecAccess == Init /\ [][NextAccess]_vars

\* A code flow whose challenge is the S256 digest of an 8-character verifier,
\* redeemed with that verifier.
NextShortVerifier ==
    \/ Receive
    \/ \E d \in CodeTimeSteps : AdvanceTime(d)
    \/ Authorize(DemoClient, DemoRedirect, "csrf", <<Sha256Base64URL(VShort), "S256">>, "openid")
    \/ \E s \in DOMAIN sessions, e \in Identities : HandleCallback(s, TRUE, e)
    \/ \E k \in DOMAIN authCodes, v \in {VShort, V1} :
          RedeemStart(1, k, DemoRedirect, DemoClient, "", v)
    \/ RedeemProcess(1, TRUE, TRUE)
    \/ RedeemFinish(1)

SpecShortVerifier == Init /\ [][NextShortVerifier]_vars

\* ------------------------------------------------------------------ claims
\* the token responses of the authorization_code grant
Redemptions == {d \in delivered : d.grant = "authorization_code"}

\* codes for which a token response with a triple has been written
Redeemed == {d.code : d \in Redemptions}

\* redemptions whose tokens exist: written out, or about to be
TokensIssuedFor == Redemptions \cup {reqs[r] : r \in {x \in 1..MaxReq : reqs[x].pc = "issued"}}

\* the verifier answers the challenge under the method
PKCEMatches(verifier, challenge, method) ==
    \/ method \in {"", "plain"} /\ verifier = challenge
    \/ method = "S256" /\ Sha256Base64URL(verifier) = challenge

\* C1: of the authorization_code requests that name one code, concurrent or
\* not, at most one is answered with a token triple.
C1_AtMostOnceRedemption ==
    \A d1, d2 \in Redemptions : d1.code = d2.code => d1 = d2

\* C2: a token request for a code that starts after a request for that code
\* was answered with tokens ends at once: it never obtains the code, carries
\* no tokens, writes nothing, and is answered invalid_grant whenever it passes
\* the parameter and client checks that precede the code lookup.
C2_SequentialSingleUse ==
    [][(Quiet /\ reqs[1].pc = "idle" /\ reqs'[1].pc = "got") => reqs'[1].code \notin Redeemed]_vars
    /\ [][(Quiet /\ reqs[1].pc = "idle" /\ resp'.op = "token" /\ resp'.code \in Redeemed) =>
            /\ resp'.tokens = NoTokens
            /\ resp'.outcome \in {"invalid_request", "invalid_client", "invalid_grant"}
            /\ <<authCodes, refreshTokens, tripleCount, delivered>>' =
                   <<authCodes, refreshTokens, tripleCount, delivered>>
            /\ \A u \in {DemoRedirect, ConfRedirect, ""}, c \in ClientIds, s \in Secrets, v \in Verifiers :
                  (/\ RedeemStart(1, resp'.code, u, c, s, v)
                   /\ u # ""
                   /\ ~(IsConfidential(GetClientByID(clients, c))
                        /\ GetClientByID(clients, c).ClientSecret # s))
                  => resp'.outcome = "invalid_grant"]_vars

C2_Witness ==
    /\ resp.op = "token"
    /\ resp.outcome = "invalid_grant"
    /\ resp.code \in Redeemed

\* C3: a request whose expiry check runs later than the code's ExpiresAt is
\* answered invalid_grant without tokens and writes no refresh row, and after
\* the sweep removed the expired code a request for it is answered with an
\* error and no tokens; no token response carries tokens of a check that ran
\* late.
C3_ExpiryMonotonicity ==
    [][(Quiet /\ reqs[1].pc = "got" /\ now > reqs[1].authCode.ExpiresAt /\ reqs' # reqs) =>
            /\ reqs'[1] = IdleReq
            /\ resp' = TokenResp("invalid_grant", reqs[1].code, NoTokens, TRUE)
            /\ <<refreshTokens, tripleCount, delivered>>' = <<refreshTokens, tripleCount, delivered>>]_vars
    /\ [][(Quiet /\ resp'.op = "token" /\ resp'.outcome = "ok") => ~resp'.late]_vars
    /\ [][(/\ Quiet /\ reqs[1].pc = "idle" /\ resp'.op = "token"
            /\ resp'.code \notin DOMAIN authCodes
            /\ \E m \in minted : m.Code = resp'.code /\ now > m.ExpiresAt) =>
               /\ resp'.tokens = NoTokens
               /\ resp'.outcome \in {"invalid_request", "invalid_client", "invalid_grant"}
               /\ <<refreshTokens, tripleCount, delivered>>' = <<refreshTokens, tripleCount, delivered>>]_vars

C3_Witness ==
    /\ resp.op = "token"
    /\ resp.late
    /\ resp.outcome = "invalid_grant"
    /\ \E m \in minted : m.Code = resp.code /\ now > m.ExpiresAt

\* C4: tokens issued for a code that carries a PKCE challenge were requested
\* with a verifier that answers the challenge under the code's method.
C4_PKCEBinding ==
    \A x \in TokensIssuedFor :
        x.authCode.CodeChallenge # EmptyStr =>
            PKCEMatches(x.codeVerifier, x.authCode.CodeChallenge, x.authCode.CodeChallengeMethod)

C4_Witness ==
    \E d \in Redemptions :
        /\ d.authCode.CodeChallenge # EmptyStr
        /\ d.authCode.CodeChallengeMethod = "S256"
        /\ d.codeVerifier = V1

\* C5: every redemption answered with tokens was made by a confidential
\* client with its exact secret, or by a public client for a code that
\* carries a PKCE challenge the verifier answers.
C5_SecretOrPKCE ==
    \A d \in Redemptions :
        IF IsConfidential(d.client)
        THEN d.clientSecret = d.client.ClientSecret
        ELSE /\ d.authCode.CodeChallenge # EmptyStr
             /\ PKCEMatches(d.codeVerifier, d.authCode.CodeChallenge, d.authCode.CodeChallengeMethod)

\* the token triples handed out by either grant
Triples == {d.tokens : d \in delivered}

\* the triples GenerateTokens has returned: handed out, or held by a request
\* that has yet to write its response
ReturnedTriples == Triples \cup {reqs[r].tokens : r \in {x \in 1..MaxReq : reqs[x].pc = "issued"}}

\* C6: a refresh request that presents a token whose fingerprint is in the
\* revocation ledger with an expiry still ahead is not answered with tokens.
C6_LedgerInvalidatesRefresh ==
    (resp.op = "refresh" /\ IsTokenRevoked(revokedTokens, resp.token, now)) => resp.outcome # "ok"

\* C7: an introspection of a token that verifies as an access token and whose
\* fingerprint is in the revocation ledger, unexpired, answers active=false.
C7_RevocationSupersedesSignature ==
    (/\ resp.op = "introspect"
     /\ VerifyAccessToken(resp.token, JWTSecret, now)
     /\ IsTokenRevoked(revokedTokens, resp.token, now)) => resp.body = InactiveResponse

C7_Witness ==
    /\ resp.op = "introspect"
    /\ VerifyAccessToken(resp.token, JWTSecret, now)
    /\ IsTokenRevoked(revokedTokens, resp.token, now)
    /\ \E t \in Triples : t.AccessToken = resp.token

\* the refresh_tokens row of the token exists, is not revoked and not expired
RecordUsable(tok) ==
    /\ tok \in DOMAIN refreshTokens
    /\ ~refreshTokens[tok].Revoked
    /\ ~(now > refreshTokens[tok].ExpiresAt)

\* C8: a refresh request is answered with tokens only if the presented token
\* verifies as a refresh token and its row exists, is not revoked and not
\* expired; when the row is missing, revoked or expired the request writes no
\* row, carries no tokens, and RefreshTokens' error is answered invalid_grant.
C8_RefreshNeedsBothChecks ==
    [][(Quiet /\ resp'.op = "refresh") =>
          /\ resp'.outcome = "ok" =>
                VerifyRefreshToken(resp'.token, JWTSecret, now) /\ RecordUsable(resp'.token)
          /\ ~RecordUsable(resp'.token) =>
                /\ resp'.tokens = NoTokens
                /\ <<refreshTokens, tripleCount, delivered>>' = <<refreshTokens, tripleCount, delivered>>
                /\ \A c \in ClientIds, s \in Secrets, readOK \in BOOLEAN, storeOK \in BOOLEAN :
                      (/\ RefreshGrant(resp'.token, c, s, readOK, storeOK)
                       /\ ~(IsConfidential(GetClientByID(clients, c))
                            /\ GetClientByID(clients, c).ClientSecret # s))
                      => resp'.outcome = "invalid_grant"]_vars

C8_Witness ==
    /\ resp.op = "refresh"
    /\ resp.outcome = "invalid_grant"
    /\ VerifyRefreshToken(resp.token, JWTSecret, now)
    /\ resp.token \in DOMAIN refreshTokens
    /\ refreshTokens[resp.token].Revoked

\* C9: every refresh token GenerateTokens has returned has its row in
\* refresh_tokens, every row belongs to a returned triple, and a triple whose
\* row could not be written is not returned.
C9_RefreshDurabilityCoupling ==
    /\ \A t \in ReturnedTriples : t.RefreshToken \in DOMAIN refreshTokens
    /\ \A tok \in DOMAIN refreshTokens : \E t \in ReturnedTriples : t.RefreshToken = tok
    /\ (resp.op \in {"token", "refresh"} /\ resp.tokens # NoTokens) =>
           resp.tokens.RefreshToken \in DOMAIN refreshTokens

C9_Witness ==
    /\ Triples # {}
    /\ tripleCount > Cardinality(DOMAIN refreshTokens)

\* C10: of an issued triple the refresh token does not verify as an access
\* token, the access token does not verify as a refresh token, the ID token
\* verifies as neither; a refresh request presenting an access or ID token is
\* refused and an introspection of a refresh or ID token answers inactive.
C10_TokenTypeConfusion ==
    /\ \A t \in Triples :
          /\ ~VerifyAccessToken(t.RefreshToken, JWTSecret, now)
          /\ ~VerifyRefreshToken(t.AccessToken, JWTSecret, now)
          /\ ~VerifyAccessToken(t.IDToken, JWTSecret, now)
          /\ ~VerifyRefreshToken(t.IDToken, JWTSecret, now)
    /\ (resp.op = "refresh" /\ \E t \in Triples : resp.token \in {t.AccessToken, t.IDToken}) =>
           resp.outcome # "ok"
    /\ (resp.op = "introspect" /\ \E t \in Triples : resp.token \in {t.RefreshToken, t.IDToken}) =>
           resp.body = InactiveResponse

C10_Witness ==
    /\ resp.op = "refresh"
    /\ resp.outcome = "invalid_grant"
    /\ \E t \in Triples : resp.token = t.AccessToken /\ ParseValid(t.AccessToken, JWTSecret, now)

\* C11: once a callback has minted a code from a session, the session is no
\* longer in the store, and no two codes are minted from one session.
C11_SessionConsumedOnce ==
    /\ \A m \in minted : m.Session \notin DOMAIN sessions
    /\ \A m1, m2 \in minted : m1.Session = m2.Session => m1 = m2

\* C12: a client id without a registration stays without one: no lookup by
\* /authorize or /token adds it to the directory, no session is stored for it
\* and no token request naming it is answered with tokens.
C12_UnknownClientsRejected ==
    /\ clients[GhostClient] = NoClient
    /\ \A s \in DOMAIN sessions : sessions[s].ClientID # GhostClient
    /\ \A d \in Redemptions : d.client.ClientID # GhostClient

\* C13: every stored session, and every code minted from one, carries a
\* redirect URI that is equal to one of the registered redirect URIs of its
\* client; a URI that only shares a part with a registered one is in no session.
C13_RedirectExactMatch ==
    /\ \A s \in DOMAIN sessions :
          /\ sessions[s].RedirectURI \in clients[sessions[s].ClientID].RedirectURIs
          /\ sessions[s].RedirectURI \notin PartialRedirects
    /\ \A k \in DOMAIN authCodes :
          authCodes[k].RedirectURI \in clients[authCodes[k].ClientID].RedirectURIs

C13_Witness ==
    \E s \in DOMAIN sessions :
        /\ sessions[s].ClientID = DemoClient
        /\ sessions[s].RedirectURI = DemoRedirect
        /\ clients[DemoClient].RedirectURIs = {DemoRedirect}

\* C14: at /token, for both grants, a request that names a confidential
\* client with a secret other than the registered one is answered
\* invalid_client and changes no code, request or token state; a request of a
\* confidential client gets past the client check only with the registered
\* secret; for a public client the same request with any other secret takes
\* the same step.
C14_ClientAuthentication ==
    /\ [][(Quiet /\ reqs[1].pc = "idle" /\ resp'.op = "token") =>
            \A u \in RedirectURIs, c \in ClientIds, s \in Secrets \cup WrongSecrets :
               RedeemStart(1, resp'.code, u, c, s, EmptyStr) =>
                  LET cl == GetClientByID(clients, c)
                  IN  /\ (cl.ClientType = "confidential" /\ s # cl.ClientSecret) =>
                            /\ resp'.outcome = "invalid_client"
                            /\ <<authCodes, reqs, refreshTokens, tripleCount, delivered>>' =
                                   <<authCodes, reqs, refreshTokens, tripleCount, delivered>>
                      /\ cl.ClientType = "public" =>
                            \A s2 \in Secrets \cup WrongSecrets :
                               RedeemStart(1, resp'.code, u, c, s2, EmptyStr)]_vars
    /\ [][(Quiet /\ reqs[1].pc = "idle" /\ reqs'[1].pc = "got") =>
            (reqs'[1].client.ClientType = "confidential" =>
                reqs'[1].clientSecret = reqs'[1].client.ClientSecret)]_vars
    /\ [][(Quiet /\ resp'.op = "refresh") =>
            \A c \in ClientIds, s \in Secrets \cup WrongSecrets :
               RefreshGrant(resp'.token, c, s, TRUE, TRUE) =>
                  LET cl == GetClientByID(clients, c)
                  IN  /\ (cl.ClientType = "confidential" /\ s # cl.ClientSecret) =>
                            /\ resp'.outcome = "invalid_client"
                            /\ <<refreshTokens, tripleCount, delivered>>' =
                                   <<refreshTokens, tripleCount, delivered>>
                      /\ cl.ClientType = "public" =>
                            \A s2 \in Secrets \cup WrongSecrets :
                               RefreshGrant(resp'.token, c, s2, TRUE, TRUE)]_vars
    /\ [](\A d \in Redemptions :
            d.client.ClientType = "confidential" => d.clientSecret = d.client.ClientSecret)
    /\ []((Quiet /\ reqs[1].pc = "idle") =>
            \A k \in DOMAIN authCodes, c \in ClientIds, s2 \in Secrets \cup WrongSecrets :
               (/\ GetClientByID(clients, c).ClientType = "public"
                /\ ENABLED (RedeemStart(1, k, authCodes[k].RedirectURI, c, "", EmptyStr)
                            /\ reqs'[1].pc = "got"))
               => ENABLED (RedeemStart(1, k, authCodes[k].RedirectURI, c, s2, EmptyStr)
                           /\ reqs'[1].pc = "got"))

C14_Witness ==
    /\ \E d \in Redemptions : d.client.ClientType = "confidential"
    /\ resp.op = "refresh"
    /\ resp.outcome = "invalid_client"
    /\ \E t \in Triples : t.RefreshToken = resp.token

\* C15: every answer of the revocation endpoint to a non-empty token reports
\* success (HTTP 200), whatever the token and whether or not the ledger write
\* succeeded.
C15_RevokeNeverFails ==
    resp.op = "revoke" => resp.status = 200

\* an issued access token that still verifies has its fingerprint in the ledger
SomeIssuedTokenRevoked ==
    \E t \in Triples :
        /\ VerifyAccessToken(t.AccessToken, JWTSecret, now)
        /\ IsTokenRevoked(revokedTokens, t.AccessToken, now)

\* C16: a caller who keeps sending requests to every routed endpoint reaches
\* a state in which an issued, still unexpired access token has its
\* fingerprint in the revocation ledger.
C16_RevocationAvailable == <>SomeIssuedTokenRevoked

\* C16, the other way round: no request to a routed endpoint writes the ledger.
C16_LedgerNeverWritten == revokedTokens = EmptyMap

\* C18: an introspection of an issued access token that verifies and whose
\* fingerprint is not in the ledger answers active=true with the claims the
\* token was issued with.
C18_IntrospectionCompleteness ==
    (/\ resp.op = "introspect"
     /\ \E t \in Triples : t.AccessToken = resp.token
     /\ VerifyAccessToken(resp.token, JWTSecret, now)
     /\ ~IsTokenRevoked(revokedTokens, resp.token, now))
    => resp.body = ActiveResponse(mapClaimsToTokenClaims(resp.token.claims))

Refreshes == {d \in delivered : d.grant = "refresh_token"}

C20_RefreshPreservesScope ==
    \A d \in Refreshes : \A t \in Triples :
        t.RefreshToken = d.presented =>
            mapClaimsToTokenClaims(d.tokens.AccessToken.claims).Scope =
                mapClaimsToTokenClaims(t.AccessToken.claims).Scope

\* the client id the request that obtained a token response named
RequestClientID(d) == IF d.grant = "authorization_code" THEN d.client.ClientID ELSE d.clientID

\* C21: the refresh_tokens row of every refresh token a token response handed
\* out carries the client id the request named and the scope of the access
\* token issued with it.
C21_RecordStoresClientAndScope ==
    \A d \in delivered :
        d.tokens.RefreshToken \in DOMAIN refreshTokens =>
            /\ refreshTokens[d.tokens.RefreshToken].ClientID = RequestClientID(d)
            /\ refreshTokens[d.tokens.RefreshToken].Scope =
                   mapClaimsToTokenClaims(d.tokens.AccessToken.claims).Scope

\* the codes and session ids the store can hold
CodeKeys == {RandomString("code", n) : n \in 1..MaxCodes}

SessionKeys == {RandomString("session", n) : n \in 1..MaxSessions}

\* C22: with the ticker firing and the sweep running on every tick, a code
\* is in the store no later than one sweep interval after its ExpiresAt and a
\* session no later than one sweep interval after it turned 15 minutes old;
\* every code and every session in the store is eventually removed; and a
\* sweep removes only codes past their ExpiresAt and sessions older than 15
\* minutes.
C22_AbandonedEntriesSwept ==
    /\ [](\A k \in DOMAIN authCodes : now <= authCodes[k].ExpiresAt + SweepInterval)
    /\ [](\A s \in DOMAIN sessions : now - sessions[s].CreatedAt <= SessionMaxAge + SweepInterval)
    /\ \A k \in CodeKeys : (k \in DOMAIN authCodes) ~> (k \notin DOMAIN authCodes)
    /\ \A s \in SessionKeys : (s \in DOMAIN sessions) ~> (s \notin DOMAIN sessions)
    /\ [][cleanupExpired =>
            /\ \A k \in DOMAIN authCodes \ DOMAIN authCodes' : now > authCodes[k].ExpiresAt
            /\ \A s \in DOMAIN sessions \ DOMAIN sessions' :
                  now - sessions[s].CreatedAt > SessionMaxAge
            /\ \A k \in DOMAIN authCodes' : authCodes'[k] = authCodes[k]
            /\ \A s \in DOMAIN sessions' : sessions'[s] = sessions[s]]_vars

\* an expired code and a stale session wait for the sweep of the present tick
C22_Witness ==
    /\ \E k \in DOMAIN authCodes : now = authCodes[k].ExpiresAt + SweepInterval
    /\ \E m \in minted : m.Session \notin DOMAIN sessions

\* C23: no code is minted by a callback that arrives more than 15 minutes
\* after the creation of its session, whether or not the sweep has removed
\* the session by then.
C23_StaleSessionNotCompleted ==
    \A m \in minted : m.MintedAt - m.SessionCreatedAt <= SessionMaxAge

\* a revocation request that was answered with success
RevocationDone(r) ==
    \/ r.op = "revoke-service" /\ r.err = ""
    \/ r.op = "revoke" /\ r.status = 200 /\ VerifyAccessToken(r.token, JWTSecret, now)

\* C24: a successful revocation leaves a ledger entry for the token whose
\* expiry is the token's exp claim; every entry carries the exp claim of its
\* token; the lookup answers true for a token with an entry exactly while the
\* time is before that exp claim, and false at or after it and for a token
\* without an entry; and an entry disappears from the ledger only when its
\* expiry has passed, so a purge does not change any answer.
C24_LedgerExpiry ==
    /\ [][(Quiet /\ RevocationDone(resp')) =>
            /\ hashToken(resp'.token) \in DOMAIN revokedTokens'
            /\ revokedTokens'[hashToken(resp'.token)].ExpiresAt = resp'.token.claims["exp"]]_vars
    /\ [](\A h \in DOMAIN revokedTokens : revokedTokens[h].ExpiresAt = h.sha256hex.claims["exp"])
    /\ [](\A tok \in KnownTokens :
            IsTokenRevoked(revokedTokens, tok, now) <=>
                (hashToken(tok) \in DOMAIN revokedTokens /\ now < tok.claims["exp"]))
    /\ [][\A h \in DOMAIN revokedTokens :
            h \notin DOMAIN revokedTokens' => ~(now < revokedTokens[h].ExpiresAt)]_vars
    /\ [][DeleteExpiredRevokedTokens =>
            \A tok \in KnownTokens :
                IsTokenRevoked(revokedTokens', tok, now) = IsTokenRevoked(revokedTokens, tok, now)]_vars

\* the time has reached the exp claim of a revoked refresh token whose entry
\* is still in the ledger, after the entry of an access token was purged
C24_Witness ==
    /\ \E t \in Triples :
          /\ hashToken(t.RefreshToken) \in DOMAIN revokedTokens
          /\ now = t.RefreshToken.claims["exp"]
          /\ ~IsTokenRevoked(revokedTokens, t.RefreshToken, now)
    /\ \E t \in Triples :
          /\ hashToken(t.AccessToken) \notin DOMAIN revokedTokens
          /\ hashToken(t.RefreshToken) \in DOMAIN revokedTokens

\* C25: whichever revocation operation is given a token that verifies as an
\* access token or as a refresh token, and answers without an error, has the
\* token's fingerprint in the ledger afterwards.
C25_RevokeAcceptsBothKinds ==
    (/\ \/ resp.op = "revoke" /\ resp.status = 200
        \/ resp.op = "revoke-service" /\ resp.err # "failed to revoke token"
     /\ \/ VerifyAccessToken(resp.token, JWTSecret, now)
        \/ VerifyRefreshToken(resp.token, JWTSecret, now))
    => hashToken(resp.token) \in DOMAIN revokedTokens

\* C25, the half that holds: TokenService.RevokeToken records both kinds
C25_ServiceRecordsBothKinds ==
    (/\ resp.op = "revoke-service" /\ resp.err # "failed to revoke token"
     /\ \/ VerifyAccessToken(resp.token, JWTSecret, now)
        \/ VerifyRefreshToken(resp.token, JWTSecret, now))
    => hashToken(resp.token) \in DOMAIN revokedTokens

\* C26: a refresh request of an authenticated client whose token verifies
\* and that fails because the refresh_tokens table cannot be read, or because
\* the new row cannot be written, is answered server_error; it is answered
\* invalid_grant only when the presented token is invalid, unknown, revoked
\* or expired.
C26_RefreshErrorCategory ==
    [][(Quiet /\ resp'.op = "refresh") =>
          \A c \in ClientIds, s \in Secrets, readOK \in BOOLEAN, storeOK \in BOOLEAN :
             (/\ RefreshGrant(resp'.token, c, s, readOK, storeOK)
              /\ ~(IsConfidential(GetClientByID(clients, c))
                   /\ GetClientByID(clients, c).ClientSecret # s))
             => /\ (/\ VerifyRefreshToken(resp'.token, JWTSecret, now)
                    /\ \/ ~readOK
                       \/ RefreshCheck(resp'.token, TRUE) = "" /\ ~storeOK)
                   => resp'.outcome = "server_error"
                /\ resp'.outcome = "invalid_grant" => RefreshCheck(resp'.token, TRUE) # ""]_vars

\* C27: under S256, a verifier that satisfies the format rules verifies
\* against the challenge generated from it, and no other verifier verifies
\* against that challenge.
C27_PKCERoundTrip ==
    (resp.op = "pkce" /\ resp.method = "S256" /\ ValidateCodeVerifier(resp.V)) =>
        /\ resp.own
        /\ resp.W # resp.V => ~resp.other

C27_Witness ==
    /\ resp.op = "pkce" /\ resp.method = "S256"
    /\ resp.V = VDot /\ resp.W = V1
    /\ resp.own /\ ~resp.other

\* C28: VerifyCodeChallenge answers false, under every method, for a
\* verifier shorter than 43 or longer than 128 characters or with a character
\* outside the unreserved set, and for a method other than "", plain, S256.
C28_VerifierFormatEnforced ==
    resp.op = "pkce" =>
        /\ ~ValidateCodeVerifier(resp.V) => ~resp.own
        /\ ~ValidateCodeVerifier(resp.W) => ~resp.other
        /\ resp.method \notin {"", "plain", "S256"} => ~resp.own /\ ~resp.other

\* C28, the part that holds: the length bound and the unknown method
C28_LengthAndMethodEnforced ==
    resp.op = "pkce" =>
        /\ (resp.V.len < MinPKCELen \/ resp.V.len > MaxPKCELen) => ~resp.own
        /\ (resp.W.len < MinPKCELen \/ resp.W.len > MaxPKCELen) => ~resp.other
        /\ resp.method \notin {"", "plain", "S256"} => ~resp.own /\ ~resp.other

\* C29: a request to /userinfo with a token whose fingerprint is in the
\* revocation ledger, entry not expired, is not answered with the user's
\* data, as an introspection of that token is not answered active.
C29_RevokedRejectedEverywhere ==
    /\ (resp.op = "userinfo" /\ IsTokenRevoked(revokedTokens, resp.token, now)) =>
           resp.body.status # 200
    /\ (resp.op = "introspect" /\ IsTokenRevoked(revokedTokens, resp.token, now)) =>
           resp.body = InactiveResponse

\* C29, the half that holds: /introspect rejects what the ledger holds
C29_IntrospectRejectsRevoked ==
    (resp.op = "introspect" /\ IsTokenRevoked(revokedTokens, resp.token, now)) =>
        resp.body = InactiveResponse

\* C30: an introspection, with a working ledger lookup, of an issued refresh
\* token that verifies as a refresh token, has a usable refresh_tokens row
\* and no unexpired ledger entry answers active=true.
C30_IntrospectValidatesRefresh ==
    [][(/\ Quiet /\ resp'.op = "introspect"
        /\ Introspect(resp'.token, TRUE)
        /\ \E t \in Triples : t.RefreshToken = resp'.token
        /\ VerifyRefreshToken(resp'.token, JWTSecret, now)
        /\ RecordUsable(resp'.token)
        /\ ~IsTokenRevoked(revokedTokens, resp'.token, now))
       => resp'.body.Active]_vars

\* C31: a revocation of a valid token whose fingerprint is already in the
\* ledger leaves the ledger as it is, with the one entry the first
\* revocation wrote, and is answered with success when the insert succeeds.
C31_RevokeIdempotent ==
    [][(/\ Quiet /\ resp'.op \in {"revoke", "revoke-service"}
        /\ hashToken(resp'.token) \in DOMAIN revokedTokens
        /\ \/ VerifyAccessToken(resp'.token, JWTSecret, now)
           \/ VerifyRefreshToken(resp'.token, JWTSecret, now))
       => /\ revokedTokens' = revokedTokens
          /\ RevokeToken(resp'.token, TRUE) => resp'.err = ""
          /\ RevokeHandle(resp'.token, TRUE) => resp'.status = 200]_vars

\* a second revocation of a refresh token, an hour after the first
C31_Witness ==
    /\ resp.op = "revoke-service" /\ resp.err = ""
    /\ VerifyRefreshToken(resp.token, JWTSecret, now)
    /\ hashToken(resp.token) \in DOMAIN revokedTokens
    /\ revokedTokens[hashToken(resp.token)].CreatedAt < now

\* C32: the code a callback stores carries the client id, redirect URI, PKCE
\* challenge, PKCE method and scope of the session its state value names;
\* and a token request is given tokens only if its client_id and redirect_uri
\* are those of the code.
C32_CodeInheritsBinding ==
    /\ [][codeCount' = codeCount + 1 =>
            \A m \in minted' \ minted :
               /\ m.Session \in DOMAIN sessions
               /\ m.Code \in DOMAIN authCodes' /\ m.Code \notin DOMAIN authCodes
               /\ authCodes'[m.Code].ClientID = sessions[m.Session].ClientID
               /\ authCodes'[m.Code].RedirectURI = sessions[m.Session].RedirectURI
               /\ authCodes'[m.Code].CodeChallenge = sessions[m.Session].CodeChallenge
               /\ authCodes'[m.Code].CodeChallengeMethod = sessions[m.Session].CodeChallengeMethod
               /\ authCodes'[m.Code].Scope = sessions[m.Session].Scope]_vars
    /\ [][\A r \in 1..MaxReq :
            (reqs[r].pc = "got" /\ reqs'[r].pc = "issued") =>
               /\ reqs[r].clientID = reqs[r].authCode.ClientID
               /\ reqs[r].redirectURI = reqs[r].authCode.RedirectURI]_vars
    /\ [](\A d \in Redemptions : d.client.ClientID = d.authCode.ClientID)

\* tokens were given for a code of the confidential client, and a request
\* that named the code with another client's redirect URI was refused
C32_Witness ==
    /\ \E m \in minted : m.Code \in DOMAIN authCodes
                         /\ authCodes[m.Code].ClientID = ConfClient
                         /\ authCodes[m.Code].RedirectURI = ConfRedirect
    /\ resp.op = "token" /\ resp.outcome = "invalid_grant"
    /\ resp.code \in DOMAIN authCodes
    /\ ~resp.late

\* C33: on every verifier, challenge and method the helper of the token
\* endpoint answers what PKCEValidator.VerifyCodeChallenge answers; a
\* verifier shorter than 43 characters is refused by the helper.
C33_HelperEqualsValidator ==
    resp.op = "pkce" =>
        /\ resp.helperOwn = resp.own
        /\ resp.helperOther = resp.other
        /\ resp.V.len < MinPKCELen => ~resp.helperOwn

\* C33, where the two agree: on verifiers of 43 to 128 characters, when the
\* challenge is not empty
C33_AgreeOnLengthCheckedVerifiers ==
    (resp.op = "pkce" /\ resp.challenge # EmptyStr) =>
        /\ ~(resp.V.len < MinPKCELen \/ resp.V.len > MaxPKCELen) => resp.helperOwn = resp.own
        /\ ~(resp.W.len < MinPKCELen \/ resp.W.len > MaxPKCELen) => resp.helperOther = resp.other

\* C33 at the token endpoint: no tokens are given to a request whose verifier
\* is shorter than 43 characters.
C33_ShortVerifierRefusedAtRedemption ==
    \A d \in Redemptions :
        d.authCode.CodeChallenge # EmptyStr => ~(d.codeVerifier.len < MinPKCELen)

\* C34: every stored session that carries a code_challenge carries one of 43
\* to 128 characters of the alphabet A-Z, a-z, 0-9, '-', '_' with a method
\* that is empty, plain or S256; an authorization request with any other
\* challenge or method stores no session.
C34_ChallengeValidatedAtAuthorization ==
    \A s \in DOMAIN sessions :
        sessions[s].CodeChallenge # EmptyStr =>
            /\ sessions[s].CodeChallenge.len >= MinPKCELen
            /\ sessions[s].CodeChallenge.len <= MaxPKCELen
            /\ sessions[s].CodeChallenge.cls \subseteq {"alnum", "dash", "underscore"}
            /\ sessions[s].CodeChallengeMethod \in {"", "plain", "S256"}

\* a session with a challenge of exactly 128 characters
C34_Witness ==
    \E s \in DOMAIN sessions :
        /\ sessions[s].CodeChallenge = VMax
        /\ sessions[s].CodeChallengeMethod = "plain"

\* C35: a token request of the authorization_code grant that fails for any
\* reason other than the expiry of its code leaves the code store as it was;
\* a redemption removes a code only with the response that carries the tokens,
\* whose refresh record is stored, or on finding the code expired.
C35_FailedRedemptionKeepsCode ==
    /\ [][(resp' # resp /\ resp'.op = "token" /\ resp'.outcome # "ok" /\ ~resp'.late)
            => authCodes' = authCodes]_vars
    /\ [][(resp' # resp /\ resp'.op = "token") =>
            \A k \in DOMAIN authCodes \ DOMAIN authCodes' :
               /\ k = resp'.code
               /\ \/ resp'.late /\ now > authCodes[k].ExpiresAt
                  \/ /\ resp'.outcome = "ok"
                     /\ resp'.tokens.RefreshToken \in DOMAIN refreshTokens]_vars

\* a request that passed every check on its code was refused with
\* server_error and the code is still in the store
C35_Witness ==
    /\ resp.op = "token" /\ resp.outcome = "server_error"
    /\ ~resp.late
    /\ resp.code \in DOMAIN authCodes
    /\ now <= authCodes[resp.code].ExpiresAt

\* C36: every token triple of the authorization_code grant was produced from a
\* code that a callback minted earlier, from a session that an earlier
\* authorization request stored for the same client id after the redirect URI
\* matched a registered URI of that client exactly; no code is in the store
\* without that history.
C36_IssuanceProvenance ==
    /\ [][\A s \in DOMAIN sessions' \ DOMAIN sessions :
            /\ sidCount' = sidCount + 1
            /\ s = RandomString("session", sidCount')
            /\ sessions'[s].RedirectURI \in clients'[sessions'[s].ClientID].RedirectURIs
            /\ sessions'[s].CreatedAt = now]_vars
    /\ [][\A k \in DOMAIN authCodes' \ DOMAIN authCodes :
            \E m \in minted' \ minted :
               /\ m.Code = k
               /\ m.Session \in DOMAIN sessions
               /\ m.SessionCreatedAt = sessions[m.Session].CreatedAt
               /\ m.SessionCreatedAt <= m.MintedAt /\ m.MintedAt = now
               /\ authCodes'[k].ClientID = sessions[m.Session].ClientID
               /\ authCodes'[k].RedirectURI = sessions[m.Session].RedirectURI
               /\ authCodes'[k].RedirectURI
                     \in clients[authCodes'[k].ClientID].RedirectURIs]_vars
    /\ [](\A k \in DOMAIN authCodes : \E m \in minted : m.Code = k)
    /\ [](\A d \in TokensIssuedFor :
            /\ \E m \in minted : m.Code = d.code /\ m.MintedAt <= now
            /\ d.authCode.Code = d.code
            /\ d.authCode.RedirectURI \in clients[d.authCode.ClientID].RedirectURIs)

\* a triple has been returned for a code minted from a session of the
\* confidential client
C36_Witness ==
    \E d \in Redemptions :
        /\ d.authCode.ClientID = ConfClient
        /\ d.authCode.RedirectURI = ConfRedirect
        /\ \E m \in minted : m.Code = d.code /\ m.SessionCreatedAt <= m.MintedAt

C38_RefreshNotBoundToClient ==
    /\ [](\A tok \in KnownTokens \cup {Malformed}, readOK \in BOOLEAN, storeOK \in BOOLEAN :
            \A c \in ClientIds :
               RefreshTokens(tok, c, readOK, storeOK)
                  = RefreshTokens(tok, DemoClient, readOK, storeOK))
    /\ [][(resp' # resp /\ resp'.op = "refresh" /\ resp'.outcome # "invalid_client") =>
            \A c \in ClientIds :
               LET result == RefreshTokens(resp'.token, c, TRUE, TRUE)
               IN  /\ resp'.tokens = result.tokens
                   /\ (resp'.outcome = "ok") = (result.err = "")]_vars

\* the refresh token given to the confidential client has been refreshed by
\* a request that named another client
C38_Witness ==
    \E d \in delivered : \E e \in Redemptions :
        /\ d.grant = "refresh_token"
        /\ e.tokens.RefreshToken = d.presented
        /\ e.client.ClientID = ConfClient
        /\ d.clientID # ConfClient

\* the refresh request the response answers: its token has a valid row whose
\* user has no row in users
MissingUserRefresh ==
    /\ resp' # resp /\ resp'.op = "refresh"
    /\ resp'.outcome # "invalid_client"
    /\ RefreshCheck(resp'.token, TRUE) = ""
    /\ GetUserByID(refreshTokens[resp'.token].UserID) = NoUser

\* C39: a refresh request whose refresh record is valid but whose user has no
\* row is answered invalid_grant, with no tokens and no record written; the
\* request does not crash.
C39_MissingUserFailsCleanly ==
    [][MissingUserRefresh =>
          /\ resp'.outcome = "invalid_grant"
          /\ resp'.tokens = NoTokens
          /\ refreshTokens' = refreshTokens]_vars

\* C39, the part that holds: such a request is given no tokens and writes
\* no record
C39_MissingUserIssuesNothing ==
    [][MissingUserRefresh =>
          /\ resp'.outcome # "ok"
          /\ resp'.tokens = NoTokens
          /\ refreshTokens' = refreshTokens
          /\ delivered' = delivered]_vars

====
